---------------------------- MODULE Spec2Model ----------------------------
(***************************************************************************)
(* Execution-and-accounting engine of the backtester:                      *)
(*   src/src/execution/execution.py   (half-spread pricing, lot rounding)  *)
(*   src/src/portfolio/execution.py   (second copy of the same engine)     *)
(*   src/src/execution/fees.py, src/src/portfolio/fees.py  (fee model)     *)
(*   src/src/portfolio/portfolio.py   (PortfolioLite account)              *)
(*                                                                         *)
(* Numbers.  The program computes in float64.  The model computes exactly, *)
(* on scaled rationals <<n, d, k>> = (n / d) * (10^12)^k in lowest terms   *)
(* with 10^-6 < |n / d| < 10^6, so that equality of values is equality of  *)
(* triples.  The scale k is what holds EPS = 1e-12 (k = -1) and a quotient *)
(* by EPS (k = 1) next to ordinary values (k = 0).  NaN, the missing value *)
(* of pandas, is the triple <<0, 0, 0>>.  A computation the model cannot   *)
(* hold (a sum of values of different scales, a value out of the 32-bit    *)
(* range) stops the check with an error; it never wraps or rounds.         *)
(***************************************************************************)
EXTENDS Integers, Sequences, FiniteSets, TLC

(***************************************************************************)
(* Exact arithmetic                                                        *)
(***************************************************************************)
Abs(x) == IF x < 0 THEN -x ELSE x

RECURSIVE GCD(_, _)
GCD(a, b) == IF b = 0 THEN a ELSE GCD(b, a % b)

RECURSIVE Pow10(_)
Pow10(k) == IF k = 0 THEN 1 ELSE 10 * Pow10(k - 1)

NaN == <<0, 0, 0>>
IsNaN(a) == a[2] = 0
Zero == <<0, 1, 0>>

\* A value the model cannot hold: evaluating it stops the check.
OutOfRange == CHOOSE x \in {} : TRUE

\* Canonical form of (n / d) * (10^12)^k, d # 0: lowest terms, d > 0, and
\* 10^-6 < |n / d| < 10^6, which makes the form unique.
Norm(n, d, k) ==
    IF n = 0 THEN Zero
    ELSE LET s == IF d < 0 THEN -1 ELSE 1
             g == GCD(Abs(n), Abs(d))
             a == (s * n) \div g
             b == (s * d) \div g
         IN  IF Abs(a) \div b < 1000000 /\ b \div Abs(a) < 1000000
             THEN <<a, b, k>>
             ELSE OutOfRange

\* The integer i, the fraction n/d and the decimal n * 10^e.
I(i) == Norm(i, 1, 0)
Frac(n, d) == Norm(n, d, 0)
Dec(n, e) == IF e >= 0 THEN Norm(n * Pow10(e), 1, 0) ELSE Norm(n, Pow10(-e), 0)

\* Values of different scales add up only when one of them is zero.
RAdd(a, b) ==
    IF IsNaN(a) \/ IsNaN(b) THEN NaN
    ELSE IF a[1] = 0 THEN b
    ELSE IF b[1] = 0 THEN a
    ELSE IF a[3] # b[3] THEN OutOfRange
    ELSE LET g == GCD(a[2], b[2])
         IN  Norm(a[1] * (b[2] \div g) + b[1] * (a[2] \div g),
                  (a[2] \div g) * b[2], a[3])

RNeg(a) == IF IsNaN(a) THEN NaN ELSE <<-a[1], a[2], a[3]>>
RSub(a, b) == RAdd(a, RNeg(b))

RMul(a, b) ==
    IF IsNaN(a) \/ IsNaN(b) THEN NaN
    ELSE IF a[1] = 0 \/ b[1] = 0 THEN Zero
    ELSE LET g1 == GCD(Abs(a[1]), b[2])
             g2 == GCD(Abs(b[1]), a[2])
         IN  Norm((a[1] \div g1) * (b[1] \div g2),
                  (a[2] \div g2) * (b[2] \div g1), a[3] + b[3])

\* Float division: x / 0 is NaN for x = 0 and +-inf otherwise; the model
\* divides by non-zero values only and gives NaN for a zero divisor.
RDiv(a, b) ==
    IF IsNaN(a) \/ IsNaN(b) \/ b[1] = 0 THEN NaN
    ELSE IF a[1] = 0 THEN Zero
    ELSE LET s  == IF b[1] < 0 THEN -1 ELSE 1
             g1 == GCD(Abs(a[1]), Abs(b[1]))
             g2 == GCD(a[2], b[2])
         IN  Norm(s * (a[1] \div g1) * (b[2] \div g2),
                  (a[2] \div g2) * (Abs(b[1]) \div g1), a[3] - b[3])

RAbs(a) == IF IsNaN(a) THEN NaN ELSE <<Abs(a[1]), a[2], a[3]>>
Sign(a) == IF a[1] > 0 THEN 1 ELSE IF a[1] < 0 THEN -1 ELSE 0

\* Order of two positive values: by scale, then by cross-multiplication.
PosLess(a, b) ==
    IF a[3] # b[3] THEN a[3] < b[3]
    ELSE LET g == GCD(a[2], b[2])
         IN  a[1] * (b[2] \div g) < b[1] * (a[2] \div g)

\* a < b; every comparison with NaN is false, as in IEEE 754.
RLt(a, b) ==
    IF IsNaN(a) \/ IsNaN(b) THEN FALSE
    ELSE IF Sign(a) # Sign(b) THEN Sign(a) < Sign(b)
    ELSE IF Sign(a) = 0 THEN FALSE
    ELSE IF Sign(a) > 0 THEN PosLess(a, b)
    ELSE PosLess(RNeg(b), RNeg(a))
RGt(a, b) == RLt(b, a)
RLe(a, b) == ~IsNaN(a) /\ ~IsNaN(b) /\ ~RLt(b, a)
RGe(a, b) == RLe(b, a)

\* Python's max(a, b): b when b > a, else a.
RMax(a, b) == IF RGt(b, a) THEN b ELSE a

\* numpy floor and ceil of a value, as an integer-valued number.
RFloor(a) ==
    IF IsNaN(a) THEN NaN
    ELSE IF a[3] # 0 THEN OutOfRange
    ELSE I(a[1] \div a[2])
RCeil(a) == RNeg(RFloor(RNeg(a)))

(***************************************************************************)
(* pandas Series and DataFrame.  A Series is a function from its index to  *)
(* numbers; a DataFrame is [index |-> set of keys, col |-> function from   *)
(* the names of the columns it has to Series over the index].              *)
(***************************************************************************)
EmptySeries == [k \in {} |-> NaN]

\* A Series given by a rule, tabulated over its index.
RECURSIVE Tabulate(_, _)
Tabulate(f, keys) ==
    IF keys = {} THEN EmptySeries
    ELSE LET k == CHOOSE x \in keys : TRUE
         IN  (k :> f[k]) @@ Tabulate(f, keys \ {k})
Series(f) == Tabulate(f, DOMAIN f)

fillna(s, v) == [k \in DOMAIN s |-> IF IsNaN(s[k]) THEN v ELSE s[k]]
clip_lower(s, lo) == [k \in DOMAIN s |-> IF RLt(s[k], lo) THEN lo ELSE s[k]]
reindex(s, idx) == [k \in idx |-> IF k \in DOMAIN s THEN s[k] ELSE NaN]
HasCol(df, c) == c \in DOMAIN df.col

One == I(1)
Half == Dec(5, -1)

\* A side argument is a Series or a Python scalar.
SeriesArg(s) == [kind |-> "series", v |-> s]
ScalarArg(x) == [kind |-> "scalar", v |-> x]
SideAt(side, k) == IF side.kind = "scalar" THEN side.v ELSE side.v[k]

Returned(v) == [status |-> "ok", value |-> v]
Raised(exc) == [status |-> exc, value |-> EmptySeries]

(***************************************************************************)
(* src/src/execution/execution.py                                          *)
(***************************************************************************)
\* np.where(side >= 0, 1.0 + 0.5*spread, 1.0 - 0.5*spread): NaN >= 0 is false.
execution_adj_strict_buy(side, spread) ==
    IF RGt(side, Zero) THEN RAdd(One, RMul(Half, spread))
    ELSE RSub(One, RMul(Half, spread))
execution_adj(side, spread) ==
    IF RGe(side, Zero) THEN RAdd(One, RMul(Half, spread))
    ELSE RSub(One, RMul(Half, spread))

execution_half_spread_price(p_ref, side, spread) ==
    Returned([k \in DOMAIN p_ref |->
                 RMul(p_ref[k], execution_adj(SideAt(side, k), spread[k]))])

execution_round_one_floor(x, lot) ==
    IF IsNaN(x) THEN Zero ELSE RMul(RFloor(RDiv(x, I(lot))), I(lot))
execution_round_one(x, lot) ==
    IF RGt(x, Zero) THEN RMul(RFloor(RDiv(x, I(lot))), I(lot))
    ELSE IF RLt(x, Zero) THEN RMul(RCeil(RDiv(x, I(lot))), I(lot))
    ELSE Zero

execution_round_shares(q, lot) ==
    LET q0 == fillna(q, Zero)
    IN  [k \in DOMAIN q |-> execution_round_one(q0[k], lot)]

(***************************************************************************)
(* src/src/portfolio/execution.py                                          *)
(***************************************************************************)
portfolio_adj(side, spread) ==
    IF RGe(side, Zero) THEN RAdd(One, RMul(Half, spread))
    ELSE RSub(One, RMul(Half, spread))

\* side.fillna(0) is an attribute of a Series: a scalar side has none.
portfolio_half_spread_price(p_ref, side, spread) ==
    IF side.kind = "scalar" THEN Raised("AttributeError")
    ELSE LET side0   == fillna(side.v, Zero)
             spread0 == clip_lower(fillna(spread, Zero), Zero)
         IN  Returned([k \in DOMAIN p_ref |->
                          RMul(p_ref[k], portfolio_adj(side0[k], spread0[k]))])

portfolio_round_one(x, lot) ==
    IF RGt(x, Zero) THEN RMul(RFloor(RDiv(x, I(lot))), I(lot))
    ELSE IF RLt(x, Zero) THEN RMul(RCeil(RDiv(x, I(lot))), I(lot))
    ELSE Zero

portfolio_round_shares(q, lot) ==
    LET q0 == fillna(q, Zero)
    IN  [k \in DOMAIN q |-> portfolio_round_one(q0[k], lot)]

\* The two copies of the engine, by module name.
Modules == {"execution", "portfolio"}
half_spread_price(mod, p_ref, side, spread) ==
    IF mod = "execution" THEN execution_half_spread_price(p_ref, side, spread)
    ELSE portfolio_half_spread_price(p_ref, side, spread)
round_shares(mod, q, lot) ==
    IF mod = "execution" THEN execution_round_shares(q, lot)
    ELSE portfolio_round_shares(q, lot)

(***************************************************************************)
(* apply_execution: the same text in both modules, each calling its own    *)
(* round_shares and half_spread_price.                                     *)
(***************************************************************************)
NoTrades ==
    [q |-> EmptySeries, p_ref |-> EmptySeries, p_exec |-> EmptySeries,
     notional_abs |-> EmptySeries, spread_cost |-> EmptySeries]
ExecRaised(exc) == [status |-> exc, trades |-> NoTrades]

\* The column the reference price is read from.
p_ref_col_always_open(use_tplus1) == "open"
p_ref_col(use_tplus1) == IF use_tplus1 THEN "exec_ref_tplus1" ELSE "open"

\* The spread Series of the else branch: zero, or the fixed spread in bps.
fixed_spread_always(idx, fixed_spread_bps) ==
    [k \in idx |-> RDiv(I(20), I(10000))]
fixed_spread(idx, fixed_spread_bps) ==
    IF fixed_spread_bps.given
    THEN [k \in idx |-> RDiv(fixed_spread_bps.bps, I(10000))]
    ELSE [k \in idx |-> Zero]

\* prices.get("spread_cs", 0).reindex(idx).fillna(0.0).clip(lower=0.0)
cs_spread_unclamped(prices, idx) ==
    fillna(reindex(prices.col["spread_cs"], idx), Zero)
cs_spread(prices, idx) ==
    clip_lower(fillna(reindex(prices.col["spread_cs"], idx), Zero), Zero)

trade_table(q, p_ref, p_exec, spread) ==
    [q            |-> q,
     p_ref        |-> p_ref,
     p_exec       |-> p_exec,
     notional_abs |-> [k \in DOMAIN q |-> RMul(RAbs(q[k]), p_exec[k])],
     spread_cost  |-> [k \in DOMAIN q |->
                          RMul(RMul(RMul(RAbs(q[k]), p_ref[k]), Half), spread[k])]]

\* prices[col]: the column, or KeyError when the frame has no such column.
getitem_or_default(df, c) ==
    IF HasCol(df, c) THEN Returned(df.col[c])
    ELSE Returned([k \in df.index |-> Zero])
getitem(df, c) ==
    IF HasCol(df, c) THEN Returned(df.col[c]) ELSE Raised("KeyError")

apply_execution(mod, prices, orders, opt) ==
    LET idx   == orders.index
        q_raw == fillna(reindex(getitem(orders, opt.order_col).value, idx), Zero)
        q     == round_shares(mod, q_raw, opt.lot_size)
        ref   == getitem(prices, p_ref_col(opt.use_tplus1))
    IN  IF getitem(orders, opt.order_col).status # "ok"
        THEN ExecRaised(getitem(orders, opt.order_col).status)
        ELSE IF ref.status # "ok" THEN ExecRaised(ref.status)
        ELSE IF opt.use_cs_spread /\ ~HasCol(prices, "spread_cs")
             THEN ExecRaised("AttributeError")
        ELSE LET p_ref  == reindex(ref.value, idx)
                 spread == IF opt.use_cs_spread THEN cs_spread(prices, idx)
                           ELSE fixed_spread(idx, opt.fixed_spread_bps)
                 priced == half_spread_price(mod, p_ref, SeriesArg(q), spread)
             IN  [status |-> "ok",
                  trades |-> trade_table(q, p_ref, priced.value, spread)]

(***************************************************************************)
(* src/src/execution/fees.py and src/src/portfolio/fees.py: apply_fees.    *)
(* DataFrames are objects: a heap maps the names of the frames that exist  *)
(* to their contents, copy() makes a new frame and out[c] = s changes the  *)
(* frame out names, whoever else names it.                                 *)
(***************************************************************************)
\* The trade table of apply_execution as a DataFrame.
TradeFrame(t) == [index |-> DOMAIN t.q, col |-> t]

\* trades.copy(): a new frame "out" with the contents of the frame named id.
frame_alias(heap, id) == [heap |-> heap, id |-> id]
frame_copy(heap, id) == [heap |-> ("out" :> heap[id]) @@ heap, id |-> "out"]

\* out[c] = s
setitem(heap, id, c, s) == [heap EXCEPT ![id].col = (c :> s) @@ @]

\* float(x) / 1e4
bps_to_frac(x) == RDiv(x, I(10000))

\* float(s) of a Series s: the element of a one-element Series where pandas
\* still converts it (before 3.0), TypeError otherwise.
float_of_series(s, pandas) ==
    IF Cardinality(DOMAIN s) = 1 /\ pandas = "2"
    THEN Returned(s[CHOOSE k \in DOMAIN s : TRUE])
    ELSE Raised("TypeError")

\* fees = out["notional_abs"] * _bps_to_frac(commission_bps)
commission_on_quantity(out, commission_bps) ==
    [k \in out.index |-> RMul(RAbs(out.col["q"][k]), bps_to_frac(commission_bps))]
commission(out, commission_bps) ==
    [k \in out.index |-> RMul(out.col["notional_abs"][k], bps_to_frac(commission_bps))]

\* if min_fee_abs and min_fee_abs > 0: fees = fees.clip(lower=min_fee_abs)
min_fee(fees, min_fee_abs) ==
    IF min_fee_abs.given /\ RGt(min_fee_abs.v, Zero)
    THEN clip_lower(fees, min_fee_abs.v) ELSE fees

\* float(k_bps_per_sigma) * sigma_hl.reindex(out.index).fillna(0.0)
vol_bps(out, opt) ==
    LET sigma == fillna(reindex(opt.sigma_hl.v, out.index), Zero)
    IN  [k \in out.index |-> RMul(opt.k_bps_per_sigma, sigma[k])]

\* out["q"].abs() * out.get("p_ref", 0) * frac
vol_slip(out, frac) ==
    [k \in out.index |->
        RMul(RMul(RAbs(out.col["q"][k]),
                  IF HasCol(out, "p_ref") THEN out.col["p_ref"][k] ELSE Zero),
             frac)]

\* out["spread_cost"] + out["fees"] + out["vol_slip"]
total_cost(out) ==
    [k \in out.index |->
        RAdd(RAdd(out.col["spread_cost"][k], out.col["fees"][k]),
             out.col["vol_slip"][k])]

FeesRaised(heap, exc) == [status |-> exc, heap |-> heap, out |-> "none"]

\* The part of apply_fees the two modules share: from out["fees"] = fees on.
fees_overlay(heap, out, fees, opt, pandas) ==
    LET h1   == setitem(heap, out, "fees", fees)
        frac == float_of_series(vol_bps(h1[out], opt), pandas)
        slip == IF opt.use_vol_slippage /\ opt.sigma_hl.given
                THEN vol_slip(h1[out], bps_to_frac(frac.value))
                ELSE [k \in h1[out].index |-> Zero]
        h2   == setitem(h1, out, "vol_slip", slip)
        h3   == setitem(h2, out, "total_cost", total_cost(h2[out]))
    IN  IF opt.use_vol_slippage /\ opt.sigma_hl.given /\ frac.status # "ok"
        THEN FeesRaised(h1, frac.status)
        ELSE IF ~HasCol(h2[out], "spread_cost") THEN FeesRaised(h2, "KeyError")
        ELSE [status |-> "ok", heap |-> h3, out |-> out]

\* execution/fees.py
execution_apply_fees(heap, trades, opt, pandas) ==
    LET c == frame_copy(heap, trades)
    IN  IF ~HasCol(c.heap[c.id], "notional_abs") THEN FeesRaised(c.heap, "KeyError")
        ELSE fees_overlay(c.heap, c.id,
                          min_fee(commission(c.heap[c.id], opt.commission_bps),
                                  opt.min_fee_abs),
                          opt, pandas)

\* portfolio/fees.py: there is no min_fee_abs keyword.
portfolio_apply_fees(heap, trades, opt, pandas) ==
    LET c == frame_copy(heap, trades)
    IN  IF opt.min_fee_abs.given THEN FeesRaised(heap, "TypeError")
        ELSE IF ~HasCol(c.heap[c.id], "notional_abs")
             THEN FeesRaised(c.heap, "KeyError")
        ELSE fees_overlay(c.heap, c.id,
                          commission(c.heap[c.id], opt.commission_bps),
                          opt, pandas)

apply_fees(mod, heap, trades, opt, pandas) ==
    IF mod = "execution" THEN execution_apply_fees(heap, trades, opt, pandas)
    ELSE portfolio_apply_fees(heap, trades, opt, pandas)


(***************************************************************************)
(* src/src/data/build_clean.py: the synthetic cash asset.  dates is the    *)
(* sequence of the trading days (day numbers, ascending); the Series of    *)
(* _build_cash_asset are sequences over the positions of dates.            *)
(***************************************************************************)
\* risk_free_annual.reindex(dates).ffill()
RECURSIVE ffill_at(_, _)
ffill_at(s, i) ==
    IF i = 0 THEN NaN
    ELSE IF ~IsNaN(s[i]) THEN s[i] ELSE ffill_at(s, i - 1)
ffill(s) == [i \in DOMAIN s |-> ffill_at(s, i)]
cash_rf(dates, risk_free_annual) ==
    ffill([i \in DOMAIN dates |->
              IF dates[i] \in DOMAIN risk_free_annual
              THEN risk_free_annual[dates[i]] ELSE NaN])

\* (date_series.shift(-1) - date_series).dt.days.fillna(1).astype(int)
days_to_next(dates) ==
    [i \in DOMAIN dates |->
        IF i < Len(dates) THEN dates[i + 1] - dates[i] ELSE 1]

\* factor = 1.0 + rf * (days_to_next / day_count); factor.iloc[-1] = 1.0
cash_factor_accruing(rf, days, day_count) ==
    [i \in DOMAIN rf |-> RAdd(One, RMul(rf[i], Frac(days[i], day_count)))]
cash_factor(rf, days, day_count) ==
    [i \in DOMAIN rf |->
        IF i = Len(rf) THEN One
        ELSE RAdd(One, RMul(rf[i], Frac(days[i], day_count)))]

\* Series.cumprod(): missing values are skipped and stay missing.
RECURSIVE prod_upto(_, _)
prod_upto(f, i) ==
    IF i = 0 THEN One
    ELSE RMul(IF IsNaN(f[i]) THEN One ELSE f[i], prod_upto(f, i - 1))
cumprod(f) == [i \in DOMAIN f |-> IF IsNaN(f[i]) THEN NaN ELSE prod_upto(f, i)]

\* close.shift(1).fillna(1.0), and open_.shift(-1)
cash_open_same_day(close) ==
    [i \in DOMAIN close |-> IF IsNaN(close[i]) THEN One ELSE close[i]]
cash_open(close) ==
    [i \in DOMAIN close |->
        IF i = 1 \/ IsNaN(close[i - 1]) THEN One ELSE close[i - 1]]
shift_back(s) == [i \in DOMAIN s |-> IF i < Len(s) THEN s[i + 1] ELSE NaN]

\* np.log(x): 0 exactly at 1, not a number below 0 or of a missing value,
\* and otherwise the logarithm, held as the term ln(x).
np_log(x) ==
    IF IsNaN(x) \/ RLt(x, Zero) THEN NaN
    ELSE IF x = One THEN Zero
    ELSE <<"ln", x>>

\* np.maximum and np.minimum: a missing value on either side is the result.
np_maximum(a, b) == IF IsNaN(a) \/ IsNaN(b) THEN NaN ELSE IF RGt(b, a) THEN b ELSE a
np_minimum(a, b) == IF IsNaN(a) \/ IsNaN(b) THEN NaN ELSE IF RLt(b, a) THEN b ELSE a

CashRaised(exc) == [status |-> exc, rows |-> <<>>]

\* _build_cash_asset(dates, risk_free_annual, day_count, symbol): the rows
\* of the cash asset in the order of dates.  An empty dates has no last
\* position to assign to: factor.iloc[-1] raises IndexError.
build_cash_asset(dates, risk_free_annual, day_count, symbol) ==
    LET rf     == cash_rf(dates, risk_free_annual)
        factor == cash_factor(rf, days_to_next(dates), day_count)
        close  == cumprod(factor)
        open   == cash_open(close)
        ref    == shift_back(open)
    IN  IF Len(dates) = 0 THEN CashRaised("IndexError")
        ELSE [status |-> "ok",
              rows |-> [i \in DOMAIN dates |->
                 [date |-> dates[i], asset |-> symbol,
                  factor |-> factor[i],
                  open |-> open[i], close |-> close[i],
                  high |-> np_maximum(open[i], close[i]),
                  low  |-> np_minimum(open[i], close[i]),
                  adj_close |-> close[i],
                  daily_return_log |-> np_log(factor[i]),
                  execution_price_t_plus_1_open |-> ref[i],
                  is_cash |-> 1]]]

\* The input checks of build_clean_data: "ok", or the exception raised.
check_input_index_only(prices, cash_symbol) ==
    IF ~prices.multi \/ prices.names # <<"date", "asset">> THEN "ValueError"
    ELSE "ok"
check_input(prices, cash_symbol) ==
    IF ~prices.multi \/ prices.names # <<"date", "asset">> THEN "ValueError"
    ELSE IF cash_symbol \in {k[2] : k \in prices.keys} THEN "ValueError"
    ELSE "ok"

\* The dates of a panel, unique and ascending.
RECURSIVE SortedSeq(_)
SortedSeq(S) ==
    IF S = {} THEN <<>>
    ELSE LET m == CHOOSE x \in S : \A y \in S : x <= y
         IN  <<m>> \o SortedSeq(S \ {m})

CleanRaised(exc, files, featured) ==
    [status |-> exc, featured |-> featured, files |-> files,
     panel |-> [rows |-> {}, cash |-> <<>>]]

\* build_clean_data(prices, risk_free_annual, out_path, cash_symbol) on a
\* file system holding files.  The indicators of an asset are a black box:
\* featured records the assets they were computed for.
build_clean_data(prices, risk_free_annual, out_path, cash_symbol, files) ==
    LET featured == {k[2] : k \in prices.keys}
        dates    == SortedSeq({k[1] : k \in prices.keys})
        cash_df  == build_cash_asset(dates, risk_free_annual, 360, cash_symbol)
    IN  IF check_input(prices, cash_symbol) # "ok"
        THEN CleanRaised(check_input(prices, cash_symbol), files, {})
        ELSE IF cash_df.status # "ok"
             THEN CleanRaised(cash_df.status, files, featured)
        ELSE [status |-> "ok", featured |-> featured,
              files |-> IF out_path.given THEN files \cup {out_path.v} ELSE files,
              panel |-> [rows |-> prices.keys, cash |-> cash_df.rows]]

(***************************************************************************)
(* src/src/portfolio/portfolio.py: PortfolioLite                           *)
(***************************************************************************)
EPS == <<1, 1, -1>>

\* Series.sum(): the sum of the values that are not NaN.
RECURSIVE SumOver(_, _)
SumOver(s, keys) ==
    IF keys = {} THEN Zero
    ELSE LET k == CHOOSE x \in keys : TRUE
         IN  RAdd(IF IsNaN(s[k]) THEN Zero ELSE s[k], SumOver(s, keys \ {k}))
SeriesSum(s) == SumOver(s, DOMAIN s)

\* cash + float((shares * price).sum())
marked_value(cash, shares, price) ==
    RAdd(cash, SeriesSum([a \in DOMAIN shares |-> RMul(shares[a], price[a])]))

\* reset(initial_cash)
reset_keep_positions(self, initial_cash) ==
    [cash    |-> initial_cash,
     shares  |-> self.shares,
     value   |-> initial_cash,
     weights |-> [a \in DOMAIN self.shares |-> Zero]]
reset(self, initial_cash) ==
    [cash    |-> initial_cash,
     shares  |-> [a \in DOMAIN self.shares |-> Zero],
     value   |-> initial_cash,
     weights |-> [a \in DOMAIN self.shares |-> Zero]]

\* step 2: clip when shorting is off, then divide by max(w.sum(), EPS).
normalize_targets_no_clip(w_target, allow_short) ==
    LET den == RMax(SeriesSum(w_target), EPS)
    IN  [a \in DOMAIN w_target |-> RDiv(w_target[a], den)]
normalize_targets_gross(w_target, allow_short) ==
    LET den == RMax(SeriesSum([a \in DOMAIN w_target |-> RAbs(w_target[a])]), EPS)
    IN  [a \in DOMAIN w_target |-> RDiv(w_target[a], den)]
normalize_targets(w_target, allow_short) ==
    LET w   == IF ~allow_short THEN clip_lower(w_target, Zero) ELSE w_target
        den == RMax(SeriesSum(w), EPS)
    IN  [a \in DOMAIN w |-> RDiv(w[a], den)]

\* step 3: (w * Ppre) / p1.replace(0.0, nan), then fillna(0.0).
target_shares_whole(w, Ppre, p1) ==
    fillna([a \in DOMAIN w |->
               IF p1[a] = Zero THEN NaN ELSE RFloor(RDiv(RMul(w[a], Ppre), p1[a]))],
           Zero)
target_shares(w, Ppre, p1) ==
    fillna([a \in DOMAIN w |->
               IF p1[a] = Zero THEN NaN ELSE RDiv(RMul(w[a], Ppre), p1[a])],
           Zero)

\* step 4: px_t1.get(col_spread, zeros), and the half-spread prices of the
\* assets bought (side +1) and of the assets sold (side -1).
step_spread(px_t1, col_spread) ==
    IF HasCol(px_t1, col_spread) THEN px_t1.col[col_spread]
    ELSE [a \in px_t1.index |-> Zero]

Restrict(s, keys) == [k \in keys |-> s[k]]

\* The record of a step: what it returns in info and the locals that decide
\* it; status is "ok" or the exception that ended the step.  A step that
\* raises changes nothing but the status.
NoStep(assets) ==
    [status |-> "none", P_t |-> Zero, Ppre |-> Zero, fees |-> Zero,
     pre |-> [cash |-> Zero, shares |-> [a \in assets |-> Zero]],
     p1 |-> [a \in assets |-> Zero], w_target |-> [a \in assets |-> Zero],
     w  |-> [a \in assets |-> Zero],
     q  |-> [a \in assets |-> Zero], pref |-> [a \in assets |-> Zero],
     spread |-> [a \in assets |-> Zero], pexec |-> [a \in assets |-> Zero]]
StepRaised(exc) == [status |-> exc]

\* step 5: the new state from the trades, their prices and the fees.
state_update_no_fees(self, q, pexec, p1, fees_total) ==
    LET cash   == RSub(self.cash,
                       SeriesSum([a \in DOMAIN q |-> RMul(q[a], pexec[a])]))
        shares == Series([a \in DOMAIN q |-> RAdd(self.shares[a], q[a])])
        value  == marked_value(cash, shares, p1)
    IN  [cash |-> cash, shares |-> shares, value |-> value,
         weights |-> Series([a \in DOMAIN q |->
                        RDiv(RMul(shares[a], p1[a]), RMax(value, EPS))])]
state_update_stale_weights(self, q, pexec, p1, fees_total) ==
    LET cash   == RSub(RSub(self.cash,
                            SeriesSum([a \in DOMAIN q |-> RMul(q[a], pexec[a])])),
                       fees_total)
        shares == Series([a \in DOMAIN q |-> RAdd(self.shares[a], q[a])])
        value  == marked_value(cash, shares, p1)
    IN  [cash |-> cash, shares |-> shares, value |-> value,
         weights |-> Series([a \in DOMAIN q |->
                        RDiv(RMul(self.shares[a], p1[a]), RMax(value, EPS))])]
state_update(self, q, pexec, p1, fees_total) ==
    LET cash   == RSub(RSub(self.cash,
                            SeriesSum([a \in DOMAIN q |-> RMul(q[a], pexec[a])])),
                       fees_total)
        shares == Series([a \in DOMAIN q |-> RAdd(self.shares[a], q[a])])
        value  == marked_value(cash, shares, p1)
    IN  [cash |-> cash, shares |-> shares, value |-> value,
         weights |-> Series([a \in DOMAIN q |->
                        RDiv(RMul(shares[a], p1[a]), RMax(value, EPS))])]

\* step 1: of the two values before the rebalance, P_t at the current mark
\* prices and Ppre at the next interval's, the targets are sized against
\* Ppre.
rebalance_value_now(self, px_t, p1) == marked_value(self.cash, self.shares, px_t)
rebalance_value(self, px_t, p1) == marked_value(self.cash, self.shares, p1)

\* step(px_t, px_t1, w_target).  conf is what the constructor stored; fee is
\* what the injected fees module's apply_fees returns when it returns a
\* number.  The result is the pair of the new state and the step's record.
step(self, conf, px_t, px_t1, w_target, fee) ==
    LET A      == conf.assets
        P_t    == marked_value(self.cash, self.shares, px_t)
        p1     == px_t1.col[conf.col_mark]
        Ppre   == rebalance_value(self, px_t, p1)
        w      == Series(normalize_targets(w_target, conf.allow_short))
        target == Series(target_shares(w, Ppre, p1))
        q      == Series([a \in A |-> RSub(target[a], self.shares[a])])
        pref   == px_t1.col[conf.col_ref]
        spread == Series(step_spread(px_t1, conf.col_spread))
        buys   == {a \in A : RGt(q[a], Zero)}
        sells  == {a \in A : RLt(q[a], Zero)}
        bought == half_spread_price(conf.exec, Restrict(pref, buys),
                                    ScalarArg(I(1)), Restrict(spread, buys))
        sold   == half_spread_price(conf.exec, Restrict(pref, sells),
                                    ScalarArg(I(-1)), Restrict(spread, sells))
        pexec  == Series([a \in A |-> IF a \in buys THEN bought.value[a]
                                      ELSE IF a \in sells THEN sold.value[a]
                                      ELSE pref[a]])
    IN  IF bought.status # "ok" THEN <<self, StepRaised(bought.status)>>
        ELSE IF sold.status # "ok" THEN <<self, StepRaised(sold.status)>>
        ELSE IF conf.fees # "scalar" THEN <<self, StepRaised("TypeError")>>
        ELSE <<state_update(self, q, pexec, p1, fee),
               [status |-> "ok", P_t |-> P_t, Ppre |-> Ppre, fees |-> fee,
                p1 |-> p1,
                pre |-> [cash |-> self.cash, shares |-> self.shares],
                w_target |-> w_target, w |-> w, q |-> q, pref |-> pref,
                spread |-> spread,
                pexec |-> pexec]>>

(***************************************************************************)
(* State.                                                                  *)
(*   call  the last call of a function of the engine, with its arguments   *)
(*         and what it returned or raised; for the account, the last call  *)
(*         of __init__, reset or step (of reset also whether the account   *)
(*         held shares when it was called)                                 *)
(*   conf  what PortfolioLite.__init__ stored                              *)
(*   acct  the account: cash, shares, value, weights                       *)
(*   last  the record of the last step since the last reset                *)
(*   steps the number of steps of the account since its construction       *)
(*   twin  a second account, constructed, reset and stepped like the first *)
(*         but with other current mark prices px_t: its state and the      *)
(*         record of its last step                                         *)
(***************************************************************************)
VARIABLES call, conf, acct, last, steps, twin

vars == <<call, conf, acct, last, steps, twin>>
account == <<conf, acct, last, steps, twin>>

(***************************************************************************)
(* Bounds and the inputs drawn within them                                 *)
(***************************************************************************)
NDates == 2
MaxLot == 5
MaxTenths == 125

Dates == 1..NDates
Assets == {"SPY"}
AllKeys == Dates \X Assets
Lots == 1..MaxLot

\* Raw quantities: the tenths -12.5 .. 12.5, and a missing value.
RawQuantities == {Dec(i, -1) : i \in -MaxTenths..MaxTenths} \cup {NaN}

\* Direct calls of half_spread_price: one-element Series.
RefPrices == {I(100), I(50)}
SideValues == {I(1), I(-1), Zero, I(10), I(-12)}
SpreadValues == {Dec(2, -3), Zero, Dec(-2, -3), NaN}
SideArgs == {SeriesArg([k \in {0} |-> x]) : x \in SideValues \cup {NaN}}
              \cup {ScalarArg(x) : x \in {I(1), I(-1)}}

\* Price panels.  Date t has open 99.5 + t, close 100.5 + t and the next
\* interval's reference 100 + t; the last date of the panel may have no next
\* interval.  The spread estimate of a panel is missing on every date, or
\* mixed: 0.002 on odd dates and -0.002 on even ones.
SpreadPatterns == {"mixed", "missing"}
spread_of(pattern, t) ==
    IF pattern = "missing" THEN NaN
    ELSE IF t % 2 = 1 THEN Dec(2, -3) ELSE Dec(-2, -3)
ColumnNames == {"exec_ref_tplus1", "open", "close", "spread_cs"}
ColumnSets == {ColumnNames} \cup {ColumnNames \ {c} : c \in ColumnNames \ {"close"}}
PanelIndexes == {AllKeys, {k \in AllKeys : k[1] < NDates}}

Panel(index, cols, pattern, last_ref) ==
    [index |-> index,
     col   |-> [c \in cols |-> [k \in index |->
                  CASE c = "exec_ref_tplus1" ->
                         IF k[1] = NDates THEN last_ref ELSE I(100 + k[1])
                    [] c = "open"       -> Dec(995 + 10 * k[1], -1)
                    [] c = "close"      -> Dec(1005 + 10 * k[1], -1)
                    [] OTHER            -> spread_of(pattern, k[1])]]]

Panels ==
    {Panel(ix, ColumnNames, sp, lr) :
        ix \in PanelIndexes, sp \in SpreadPatterns, lr \in {NaN, I(100 + NDates)}}
    \cup {Panel(AllKeys, cs, "mixed", NaN) : cs \in ColumnSets}

\* The same panel with other open and close prices.
OtherOpenClose(prices) ==
    [prices EXCEPT !.col = [c \in DOMAIN prices.col |->
        IF c \in {"open", "close"}
        THEN [k \in prices.index |-> RAdd(prices.col[c][k], I(7))]
        ELSE prices.col[c]]]

OrderQuantities == {Dec(107, -1), I(-12), Zero, NaN}
OrderSets ==
    {[index |-> AllKeys, col |-> [c \in {"delta_shares"} |-> q]] :
        q \in [AllKeys -> OrderQuantities]}

NoFixedSpread == [given |-> FALSE, bps |-> Zero]
FixedSpreads == {NoFixedSpread, [given |-> TRUE, bps |-> I(20)],
                 [given |-> TRUE, bps |-> I(-20)]}
ExecOptions ==
    {[order_col |-> "delta_shares", use_tplus1 |-> t, use_cs_spread |-> c,
      fixed_spread_bps |-> f, lot_size |-> l] :
        t \in BOOLEAN, c \in BOOLEAN, f \in FixedSpreads, l \in {1, MaxLot}}

\* Target-weight vectors for a call of the normalization alone: a grid, and
\* vectors whose sum is positive and below EPS.
PortfolioAssets == {"SPY", "BTC"}
Vec(x, y) == [a \in PortfolioAssets |-> IF a = "SPY" THEN x ELSE y]
Tiny == RMul(Dec(1, -1), EPS)
GridWeights == {Dec(5 * i, -1) : i \in -2..3}
TargetGrid ==
    {Vec(x, y) : x \in GridWeights, y \in GridWeights}
        \cup {Vec(Tiny, Zero), Vec(Zero, Tiny), Vec(Tiny, Tiny)}

\* The account: its configurations, and the inputs of a step.  The fees
\* module is injected: the repository's two apply_fees return a DataFrame
\* ("frame"), on which float() raises TypeError; "scalar" is a module whose
\* apply_fees returns a number, one of FeeTotals.
MaxSteps == 2
InitialCash == {I(100)}
ResetCash == {I(100), I(50)}
Confs ==
    {[assets |-> PortfolioAssets, col_mark |-> "close",
      col_ref |-> "exec_ref_tplus1", col_spread |-> "spread_cs",
      allow_short |-> s, lot_size |-> l, exec |-> e, fees |-> f] :
        s \in BOOLEAN, l \in {1, MaxLot}, e \in Modules,
        f \in {"frame", "scalar"}}

Market(close, ref, spread) ==
    [index |-> PortfolioAssets,
     col   |-> [c \in {"close", "exec_ref_tplus1", "spread_cs"} |->
                  CASE c = "close" -> close
                    [] c = "exec_ref_tplus1" -> ref
                    [] OTHER -> spread]]
WithoutSpread(m) ==
    [m EXCEPT !.col = [c \in {"close", "exec_ref_tplus1"} |-> m.col[c]]]
\* A market without frictions, one with another reference price and a wide
\* spread estimate (negative for BTC), and one with no spread column in
\* which BTC is marked at zero.
Markets ==
    {Market(Vec(I(2), I(4)), Vec(I(2), I(4)), Vec(Zero, Zero)),
     Market(Vec(I(2), I(4)), Vec(I(2), I(5)), Vec(Dec(2, -1), Dec(-2, -1))),
     WithoutSpread(Market(Vec(I(4), Zero), Vec(I(5), I(2)), Vec(Zero, Zero)))}
\* The current mark prices of a step: those the account is given and those
\* its twin is given.
MarkPairs == {<<Vec(I(2), I(4)), Vec(I(4), I(2))>>}
Targets ==
    {Vec(I(1), Zero), Vec(Dec(5, -1), Dec(5, -1)), Vec(Zero, Zero),
     Vec(Dec(15, -1), Dec(-5, -1))}
FeeTotals == {Zero, I(120)}
\* The inputs of a step: a market, a target and the fees charged.  Fees are
\* charged in the market with a spread estimate other than zero, on the
\* steps toward the two targets with a positive weight for SPY and none
\* negative; a target whose sum is positive and below EPS is
\* given in the market without frictions; a target without a positive
\* entry and with a negative one is given to the accounts that do not
\* allow shorting (with shorting it is divided by EPS, and the model cannot
\* add the resulting position to values of the ordinary scale).
StepInputs(allow_short) ==
    {in \in Markets \X Targets \X FeeTotals :
        \/ in[3] = Zero
        \/ /\ HasCol(in[1], "spread_cs") /\ in[1].col["spread_cs"]["SPY"] # Zero
           /\ RGt(in[2]["SPY"], Zero) /\ RGe(in[2]["BTC"], Zero)}
    \cup {<<Market(Vec(I(2), I(4)), Vec(I(2), I(4)), Vec(Zero, Zero)),
            Vec(Tiny, Zero), Zero>>}
    \cup (IF allow_short THEN {}
          ELSE {<<Market(Vec(I(2), I(4)), Vec(I(2), I(5)),
                         Vec(Dec(2, -1), Dec(-2, -1))),
                  Vec(Zero, Dec(-5, -1)), Zero>>})

\* Inputs of apply_fees.  The trade tables are the one of the commission
\* scenario (notional 1001, spread cost 1), the same without its p_ref
\* column, and the tables apply_execution returns for a few panels, order
\* sets and options; origin says where a table comes from.
FeeKeys == {<<1, "SPY">>}
GivenTrades ==
    [q            |-> [k \in FeeKeys |-> I(10)],
     p_ref        |-> [k \in FeeKeys |-> I(100)],
     p_exec       |-> [k \in FeeKeys |-> Dec(1001, -1)],
     notional_abs |-> [k \in FeeKeys |-> I(1001)],
     spread_cost  |-> [k \in FeeKeys |-> One]]
WithoutColumn(t, c) == [x \in DOMAIN t \ {c} |-> t[x]]
GivenOrigin == [kind |-> "given"]

ExecCases ==
    {[kind |-> "apply_execution",
      prices |-> Panel(AllKeys, ColumnNames, "mixed", lr),
      orders |-> [index |-> ix, col |-> [c \in {"delta_shares"} |-> [k \in ix |-> x]]],
      opt |-> [order_col |-> "delta_shares", use_tplus1 |-> TRUE,
               use_cs_spread |-> sp[1], fixed_spread_bps |-> sp[2],
               lot_size |-> 1]] :
        lr \in {NaN, I(100 + NDates)}, ix \in {AllKeys, FeeKeys},
        x \in {Dec(107, -1), I(-12), Zero},
        sp \in {<<TRUE, NoFixedSpread>>, <<FALSE, NoFixedSpread>>,
                <<FALSE, [given |-> TRUE, bps |-> I(20)]>>}}

FeeTrades(mod) ==
    {[origin |-> GivenOrigin, frame |-> TradeFrame(GivenTrades)],
     [origin |-> GivenOrigin,
      frame |-> TradeFrame(WithoutColumn(GivenTrades, "p_ref"))]}
    \cup {[origin |-> e,
           frame |-> TradeFrame(apply_execution(mod, e.prices, e.orders,
                                                e.opt).trades)] : e \in ExecCases}

\* The keyword arguments of apply_fees.  sigma_hl is None or a volatility
\* Series: 0.02 on the first date only, or on every date with a missing
\* value on the first.
Unset == [given |-> FALSE, v |-> Zero]
Given(x) == [given |-> TRUE, v |-> x]
NoSigma == [given |-> FALSE, v |-> [k \in AllKeys |-> NaN]]
Sigmas ==
    {[k \in FeeKeys |-> Dec(2, -2)],
     [k \in AllKeys |-> IF k[1] = 1 THEN NaN ELSE Dec(2, -2)]}
VolOptions ==
    {[use_vol_slippage |-> u, sigma_hl |-> s, k_bps_per_sigma |-> k,
      pandas |-> "2"] :
        u \in BOOLEAN, s \in {NoSigma} \cup {Given(x) : x \in Sigmas},
        k \in {Zero, I(10)}}
    \cup {[use_vol_slippage |-> TRUE, sigma_hl |-> Given(s),
           k_bps_per_sigma |-> k, pandas |-> p] :
             s \in Sigmas, k \in {Zero, I(10), I(-10)}, p \in {"2", "3"}}
FeeOptions ==
    {[commission_bps |-> c, min_fee_abs |-> m,
      use_vol_slippage |-> v.use_vol_slippage, sigma_hl |-> v.sigma_hl,
      k_bps_per_sigma |-> v.k_bps_per_sigma, pandas |-> v.pandas] :
        c \in {Zero, I(5), I(-5)},
        m \in {Unset, Given(Zero), Given(Dec(5, -1))},
        v \in VolOptions}

\* Inputs of the cash asset: date sequences that start at day 1 and go on
\* by one day or by three (a weekend), of up to MaxCashDates dates, and
\* rate series over any of those dates (a date without a rate is a gap).
MaxCashDates == 3
CashGaps == {1, 3}
RECURSIVE DateSeqsOf(_)
DateSeqsOf(n) ==
    IF n = 0 THEN {<<>>}
    ELSE IF n = 1 THEN {<<1>>}
    ELSE {Append(d, d[n - 1] + g) : d \in DateSeqsOf(n - 1), g \in CashGaps}
DateSeqs == UNION {DateSeqsOf(n) : n \in 0..MaxCashDates}
Rates == {Dec(36, -2), Dec(-36, -2), Zero}
RateSeries(dates) ==
    UNION {[S -> Rates] : S \in SUBSET {dates[i] : i \in DOMAIN dates}}

\* Inputs of build_clean_data: the index of the panel, the cash symbol, the
\* output path and the rates.
CleanIndexes ==
    {[multi |-> TRUE, names |-> n, keys |-> ds \X as] :
        n \in {<<"date", "asset">>, <<"asset", "date">>},
        ds \in {{1, 2}, {1, 4}}, as \in SUBSET {"SPY", "CASH"}}
    \cup {[multi |-> FALSE, names |-> <<"date">>, keys |-> {1, 2} \X {a}] :
            a \in {"SPY", "CASH"}}
CashSymbols == {"CASH", "USD"}
OutPaths == {[given |-> FALSE, v |-> ""], [given |-> TRUE, v |-> "features.parquet"]}
CleanRates == {[d \in {1, 2, 4} |-> Dec(36, -2)], [d \in {2} |-> Dec(36, -2)]}

(***************************************************************************)
(* Calls of the engine's functions                                         *)
(***************************************************************************)
InitCalls ==
    /\ call = [op |-> "none"]
    /\ conf = CHOOSE c \in Confs : c.exec = "execution" /\ c.fees = "scalar"
                                   /\ ~c.allow_short /\ c.lot_size = 1
    /\ acct = reset([shares |-> Vec(Zero, Zero)], I(100))
    /\ last = NoStep(PortfolioAssets)
    /\ steps = 0
    /\ twin = [acct |-> acct, last |-> last]

\* A call is made by an idle caller; Return makes the caller idle again.
Idle == call.op = "none"

CallHalfSpreadPrice ==
    /\ Idle
    /\ UNCHANGED account
    /\ \E mod \in Modules, p \in RefPrices, side \in SideArgs, s \in SpreadValues :
        call' = [op |-> "half_spread_price", mod |-> mod,
                 p_ref |-> p, side |-> side, spread |-> s,
                 result |-> half_spread_price(mod, [k \in {0} |-> p], side,
                                              [k \in {0} |-> s])]

CallRoundShares ==
    /\ Idle
    /\ UNCHANGED account
    /\ \E mod \in Modules, x \in RawQuantities, lot \in Lots :
        call' = [op |-> "round_shares", mod |-> mod, q |-> x, lot |-> lot,
                 result |-> round_shares(mod, [k \in {0} |-> x], lot)[0]]

CallApplyExecution ==
    /\ Idle
    /\ UNCHANGED account
    /\ \E mod \in Modules, prices \in Panels, orders \in OrderSets,
          opt \in ExecOptions :
        call' = [op |-> "apply_execution", mod |-> mod, prices |-> prices,
                 orders |-> orders, opt |-> opt,
                 result  |-> apply_execution(mod, prices, orders, opt),
                 result2 |-> apply_execution(mod, OtherOpenClose(prices),
                                             orders, opt)]

\* Lines 31-32 of step, on their own.
CallNormalizeTargets ==
    /\ Idle
    /\ UNCHANGED account
    /\ \E w \in TargetGrid, short \in BOOLEAN :
        call' = [op |-> "normalize_targets", w_target |-> w,
                 allow_short |-> short,
                 result |-> normalize_targets(w, short)]

\* apply_fees(trades, **opt) on a heap that holds the caller's table.
CallApplyFees ==
    /\ Idle
    /\ UNCHANGED account
    /\ \E mod \in Modules, opt \in FeeOptions :
        \E t \in FeeTrades(mod) :
            LET heap == [id \in {"trades"} |-> t.frame]
            IN  call' = [op |-> "apply_fees", mod |-> mod, origin |-> t.origin,
                         heap |-> heap, opt |-> opt,
                         result |-> apply_fees(mod, heap, "trades", opt,
                                               opt.pandas)]

\* _build_cash_asset(dates, risk_free_annual, day_count=360, symbol="CASH")
CallBuildCashAsset ==
    /\ Idle
    /\ UNCHANGED account
    /\ \E dates \in DateSeqs :
        \E rf \in RateSeries(dates) :
            call' = [op |-> "build_cash_asset", dates |-> dates, rf |-> rf,
                     result |-> build_cash_asset(dates, rf, 360, "CASH")]

\* build_clean_data(prices, risk_free_annual, out_path, cash_symbol), no
\* file being there before.
CallBuildCleanData ==
    /\ Idle
    /\ UNCHANGED account
    /\ \E prices \in CleanIndexes, rf \in CleanRates, out_path \in OutPaths,
          cash_symbol \in CashSymbols :
        call' = [op |-> "build_clean_data", prices |-> prices, rf |-> rf,
                 out_path |-> out_path, cash_symbol |-> cash_symbol,
                 result |-> build_clean_data(prices, rf, out_path,
                                             cash_symbol, {})]

Return == ~Idle /\ call' = [op |-> "none"] /\ UNCHANGED account

NextCalls ==
    \/ CallHalfSpreadPrice
    \/ CallRoundShares
    \/ CallApplyExecution
    \/ CallNormalizeTargets
    \/ CallApplyFees
    \/ CallBuildCashAsset
    \/ CallBuildCleanData
    \/ Return

SpecCalls == InitCalls /\ [][NextCalls]_vars

(***************************************************************************)
(* The account: construction, reset and step                               *)
(***************************************************************************)
Init ==
    /\ conf \in Confs
    /\ \E c \in InitialCash :
          /\ call = [op |-> "__init__", initial_cash |-> c]
          /\ acct = reset([shares |-> Vec(Zero, Zero)], c)
    /\ last = NoStep(PortfolioAssets)
    /\ steps = 0
    /\ twin = [acct |-> acct, last |-> last]

\* The constructor has reset the account that has not stepped yet.
Reset ==
    /\ steps > 0
    /\ \E c \in ResetCash :
          /\ call' = [op |-> "reset", initial_cash |-> c,
                      held |-> \E a \in conf.assets : acct.shares[a] # Zero]
          /\ acct' = reset(acct, c)
          /\ twin' = [acct |-> reset(twin.acct, c), last |-> NoStep(conf.assets)]
    /\ last' = NoStep(conf.assets)
    /\ UNCHANGED <<conf, steps>>

Step ==
    /\ steps < MaxSteps
    /\ \E px_t \in MarkPairs, in \in StepInputs(conf.allow_short) :
        LET r == step(acct, conf, px_t[1], in[1], in[2], in[3])
            t == step(twin.acct, conf, px_t[2], in[1], in[2], in[3])
        IN  /\ acct' = r[1]
            /\ last' = IF r[2].status = "ok" THEN r[2]
                       ELSE [last EXCEPT !.status = r[2].status]
            /\ twin' = [acct |-> t[1],
                        last |-> IF t[2].status = "ok" THEN t[2]
                                 ELSE [twin.last EXCEPT !.status = t[2].status]]
    /\ call' = [op |-> "step"]
    /\ steps' = steps + 1
    /\ UNCHANGED conf

Next == Reset \/ Step

Spec == Init /\ [][Next]_vars


(***************************************************************************)
(* Properties of the engine's functions (checked under SpecCalls)          *)
(***************************************************************************)
IsCall(op) == call.op = op
ExecOk == IsCall("apply_execution") /\ call.result.status = "ok"
RefColumn == IF call.opt.use_tplus1 THEN "exec_ref_tplus1" ELSE "open"

\* The value of column c of the call's panel at key k, NaN when the panel
\* has no row for k.
PanelAt(c, k) ==
    IF k \in call.prices.index THEN call.prices.col[c][k] ELSE NaN

\* C4: no lookahead.  With the next-interval option on, the reference price
\* of the order at key (t, asset) is exec_ref_tplus1 of that key, and the
\* whole result is the same for a panel that differs only in open and close.
C4_NoLookahead ==
    (IsCall("apply_execution") /\ call.opt.use_tplus1) =>
        /\ call.result2 = call.result
        /\ call.result.status = "ok" =>
              \A k \in call.orders.index :
                  call.result.trades.p_ref[k] = PanelAt("exec_ref_tplus1", k)

\* An executed buy whose interval has open, close and next-interval
\* reference all different.
C4_Witness ==
    /\ ExecOk /\ call.opt.use_tplus1
    /\ HasCol(call.prices, "open") /\ HasCol(call.prices, "close")
    /\ \E k \in call.orders.index :
          /\ RGt(call.result.trades.q[k], Zero)
          /\ ~IsNaN(call.result.trades.p_exec[k])
          /\ PanelAt("open", k) # PanelAt("exec_ref_tplus1", k)
          /\ PanelAt("close", k) # PanelAt("exec_ref_tplus1", k)
          /\ OtherOpenClose(call.prices).col["open"][k] # PanelAt("open", k)

\* The price half_spread_price is to return for non-negative spread s.
WidenedPrice(p, side, s) ==
    IF RGe(side, Zero) THEN RMul(p, RAdd(One, RDiv(s, I(2))))
    ELSE RMul(p, RSub(One, RDiv(s, I(2))))

\* C5: for a spread s >= 0, half_spread_price returns p_ref * (1 + s/2) for
\* every side >= 0, side 0 included, and p_ref * (1 - s/2) for every side
\* < 0; p_ref 100 and spread 0.002 give 100.1 for side +1, 99.9 for side -1.
C5_HalfSpreadPrice ==
    (/\ IsCall("half_spread_price")
     /\ RGe(call.spread, Zero)
     /\ call.side.kind = "series" \/ call.mod = "execution"
     /\ ~IsNaN(SideAt(call.side, 0))) =>
        /\ call.result.status = "ok"
        /\ call.result.value[0] =
              WidenedPrice(call.p_ref, SideAt(call.side, 0), call.spread)
        /\ (call.p_ref = I(100) /\ call.spread = Dec(2, -3)) =>
              /\ SideAt(call.side, 0) = I(1)  => call.result.value[0] = Dec(1001, -1)
              /\ SideAt(call.side, 0) = I(-1) => call.result.value[0] = Dec(999, -1)

\* A call with side 0 and a positive spread, priced as a buy.
C5_Witness ==
    /\ IsCall("half_spread_price") /\ call.result.status = "ok"
    /\ SideAt(call.side, 0) = Zero /\ call.spread = Dec(2, -3)
    /\ call.p_ref = I(100) /\ call.result.value[0] = Dec(1001, -1)

\* The spread estimate apply_execution starts from, before any clamping.
SourceSpread(k) ==
    IF call.opt.use_cs_spread
    THEN (IF IsNaN(PanelAt("spread_cs", k)) THEN Zero ELSE PanelAt("spread_cs", k))
    ELSE IF call.opt.fixed_spread_bps.given
         THEN RDiv(call.opt.fixed_spread_bps.bps, I(10000))
         ELSE Zero

\* C6: a negative spread is treated as zero: half_spread_price returns the
\* reference price itself for either side, called directly or by
\* apply_execution with either spread source.
C6_NegativeSpreadIsZero ==
    /\ (/\ IsCall("half_spread_price") /\ call.result.status = "ok"
        /\ RLt(call.spread, Zero) /\ ~IsNaN(SideAt(call.side, 0))) =>
           call.result.value[0] = call.p_ref
    /\ ExecOk =>
           \A k \in call.orders.index :
               RLt(SourceSpread(k), Zero) =>
                   call.result.trades.p_exec[k] = call.result.trades.p_ref[k]

\* x is a whole multiple of the lot.
IsMultiple(x, lot) == RFloor(RDiv(x, I(lot))) = RDiv(x, I(lot))

\* C7: round_shares rounds toward zero onto the lot grid: the result is a
\* multiple of the lot, is not larger than q in absolute value, differs from
\* q by less than one lot, never has the opposite sign, and is 0 for a zero
\* or missing q.
C7_RoundTowardZero ==
    IsCall("round_shares") =>
        LET q == call.q
            r == call.result
            L == I(call.lot)
        IN  IF IsNaN(q) \/ q = Zero THEN r = Zero
            ELSE /\ IsMultiple(r, call.lot)
                 /\ RLe(RAbs(r), RAbs(q))
                 /\ RLt(RAbs(RSub(q, r)), L)
                 /\ Sign(r) * Sign(q) >= 0
                 /\ RGt(q, Zero) => r = RMul(RFloor(RDiv(q, L)), L)
                 /\ RLt(q, Zero) => r = RMul(RCeil(RDiv(q, L)), L)

\* A sell that is not on the lot grid, rounded up toward zero.
C7_Witness ==
    /\ IsCall("round_shares") /\ call.lot > 1
    /\ RLt(call.q, Zero) /\ call.result # call.q /\ RLt(call.result, Zero)

\* The rounding examples: lot 5 maps 12 to 10; lot 1 maps 10.7 to 10 and
\* -10.7 to -10.
RoundingExamples ==
    /\ (call.lot = 5 /\ call.q = I(12)) => call.result = I(10)
    /\ (call.lot = 1 /\ call.q = Dec(107, -1)) => call.result = I(10)
    /\ (call.lot = 1 /\ call.q = Dec(-107, -1)) => call.result = I(-10)

\* C8 as stated: with lot 5 a raw sell of -12 gives -15.
C8_AsStated ==
    IsCall("round_shares") =>
        /\ RoundingExamples
        /\ (call.lot = 5 /\ call.q = I(-12)) => call.result = I(-15)

\* C8, amended: with lot 5 a raw buy of 12 gives 10 and a raw sell of -12
\* gives -10 (toward zero); with lot 1, 10.7 gives 10 and -10.7 gives -10.
C8_RoundingExamples ==
    IsCall("round_shares") =>
        /\ RoundingExamples
        /\ (call.lot = 5 /\ call.q = I(-12)) => call.result = I(-10)

\* The sell of -12 rounded with lot 5.
C8_Witness ==
    IsCall("round_shares") /\ call.lot = 5 /\ call.q = I(-12)
        /\ call.result = I(-10)

\* The non-negative spread of a trade.
UsedSpread(k) == IF RLt(SourceSpread(k), Zero) THEN Zero ELSE SourceSpread(k)

\* C9: every trade record with a reference price has the lot-rounded
\* quantity, p_exec = p_ref * (1 + s/2) for a buy and p_ref * (1 - s/2) for
\* a sell, inside [p_ref*(1 - s/2), p_ref*(1 + s/2)], notional_abs =
\* |q| * p_exec and spread_cost = |q| * p_ref * s/2, s being the non-negative
\* spread of the trade.
C9_TradeRecord ==
    ExecOk =>
        \A k \in call.orders.index :
            LET t  == call.result.trades
                s  == UsedSpread(k)
                lo == RMul(t.p_ref[k], RSub(One, RDiv(s, I(2))))
                hi == RMul(t.p_ref[k], RAdd(One, RDiv(s, I(2))))
            IN  ~IsNaN(t.p_ref[k]) =>
                  /\ IsMultiple(t.q[k], call.opt.lot_size)
                  /\ RLe(lo, t.p_exec[k]) /\ RLe(t.p_exec[k], hi)
                  /\ RGt(t.q[k], Zero) => t.p_exec[k] = hi
                  /\ RLt(t.q[k], Zero) => t.p_exec[k] = lo
                  /\ t.notional_abs[k] = RMul(RAbs(t.q[k]), t.p_exec[k])
                  /\ t.spread_cost[k] =
                        RMul(RMul(RAbs(t.q[k]), t.p_ref[k]), RDiv(s, I(2)))

\* C10: when the panel lacks the reference-price column the options ask for,
\* apply_execution raises KeyError and returns no trade table.
C10_FailsFast ==
    (IsCall("apply_execution") /\ ~HasCol(call.prices, RefColumn)) =>
        /\ call.result.status = "KeyError"
        /\ call.result.trades = NoTrades

\* A call on a panel that has open but no exec_ref_tplus1, the
\* next-interval option being on.
C10_Witness ==
    /\ IsCall("apply_execution") /\ call.opt.use_tplus1
    /\ ~HasCol(call.prices, "exec_ref_tplus1") /\ HasCol(call.prices, "open")
    /\ call.result.status = "KeyError"


(***************************************************************************)
(* Properties of the account (checked under Spec) and of the               *)
(* normalization of the target weights (checked under SpecCalls)           *)
(***************************************************************************)
StepDone == last.status = "ok"

\* What the trades of the last step cost against the mark:
\* sum of q * (p_exec - mark).
ExecutionShortfall ==
    SeriesSum([a \in DOMAIN last.q |->
                  RMul(last.q[a], RSub(last.pexec[a], last.p1[a]))])

C2_Accounting ==
    /\ acct.value = marked_value(acct.cash, acct.shares, last.p1)
    /\ \A a \in DOMAIN acct.shares :
          acct.weights[a] =
              RDiv(RMul(acct.shares[a], last.p1[a]), RMax(acct.value, EPS))

\* A second step that left holdings in both assets and a positive value.
C2_Witness ==
    /\ StepDone /\ steps = 2 /\ RGt(acct.value, Zero)
    /\ \A a \in DOMAIN acct.shares : RGt(acct.shares[a], Zero)

ClippedTargets ==
    IF call.allow_short THEN call.w_target
    ELSE [a \in DOMAIN call.w_target |->
             IF RLt(call.w_target[a], Zero) THEN Zero ELSE call.w_target[a]]
NegativeTargetsDropped ==
    ~call.allow_short =>
        \A a \in DOMAIN call.w_target :
            RLt(call.w_target[a], Zero) => call.result[a] = Zero

\* C3 as stated: without shorting every negative target is clipped to zero,
\* and every target vector that is not all zero after clipping is normalized
\* to sum 1.
C3_AsStated ==
    IsCall("normalize_targets") =>
        /\ NegativeTargetsDropped
        /\ (\E a \in DOMAIN call.w_target : ClippedTargets[a] # Zero)
              => SeriesSum(call.result) = One

\* C3, amended: without shorting every negative target is clipped to zero;
\* a vector whose sum after clipping is at least EPS is normalized to sum 1,
\* and any other vector is divided by EPS.
C3_Normalization ==
    IsCall("normalize_targets") =>
        /\ NegativeTargetsDropped
        /\ IF RGe(SeriesSum(ClippedTargets), EPS)
           THEN SeriesSum(call.result) = One
           ELSE \A a \in DOMAIN call.w_target :
                   call.result[a] = RDiv(ClippedTargets[a], EPS)

\* Shorting off, a negative target next to a positive one that is not 1.
C3_Witness ==
    /\ IsCall("normalize_targets") /\ ~call.allow_short
    /\ RLt(call.w_target["SPY"], Zero) /\ call.w_target["BTC"] = Dec(15, -1)
    /\ call.result = Vec(Zero, One)

(***************************************************************************)
(* Properties of the fee model (checked under SpecCalls)                   *)
(***************************************************************************)
FeesOk == IsCall("apply_fees") /\ call.result.status = "ok"
FeesIn == call.heap["trades"]
FeesOut == call.result.heap[call.result.out]
MinFeeApplies == call.opt.min_fee_abs.given /\ RGt(call.opt.min_fee_abs.v, Zero)

\* C11: when no minimum fee applies, every row of the returned table has
\* fees = notional_abs * commission_bps / 10000 and total_cost =
\* spread_cost + fees + vol_slip; notional 1001 at 5 bps gives the fee
\* 0.5005 and, with spread cost 1 and no slippage, the total cost 1.5005.
C11_Commission ==
    (FeesOk /\ ~MinFeeApplies) =>
        \A k \in FeesOut.index :
            /\ FeesOut.col["fees"][k] =
                  RDiv(RMul(FeesIn.col["notional_abs"][k], call.opt.commission_bps),
                       I(10000))
            /\ FeesOut.col["total_cost"][k] =
                  RAdd(RAdd(FeesIn.col["spread_cost"][k], FeesOut.col["fees"][k]),
                       FeesOut.col["vol_slip"][k])
            /\ (/\ FeesIn.col["notional_abs"][k] = I(1001)
                /\ call.opt.commission_bps = I(5)) =>
                  /\ FeesOut.col["fees"][k] = Dec(5005, -4)
                  /\ (/\ FeesIn.col["spread_cost"][k] = One
                      /\ FeesOut.col["vol_slip"][k] = Zero) =>
                        FeesOut.col["total_cost"][k] = Dec(15005, -4)

\* The commission scenario, in the module the test imports.
C11_Witness ==
    /\ FeesOk /\ call.mod = "portfolio" /\ call.origin = GivenOrigin
    /\ call.opt.commission_bps = I(5)
    /\ \E k \in FeesOut.index :
          /\ FeesIn.col["notional_abs"][k] = I(1001)
          /\ FeesOut.col["fees"][k] = Dec(5005, -4)
          /\ FeesOut.col["total_cost"][k] = Dec(15005, -4)

\* C12: in every returned row whose costs are numbers, fees and vol_slip are
\* not negative and total_cost >= spread_cost, whatever commission_bps,
\* min_fee_abs, k_bps_per_sigma and the volatility series are.
C12_CostsNeverNegative ==
    FeesOk =>
        \A k \in FeesOut.index :
            ~IsNaN(FeesOut.col["total_cost"][k]) =>
                /\ RGe(FeesOut.col["fees"][k], Zero)
                /\ RGe(FeesOut.col["vol_slip"][k], Zero)
                /\ RGe(FeesOut.col["total_cost"][k], FeesIn.col["spread_cost"][k])

VolSlippageOn == call.opt.use_vol_slippage /\ call.opt.sigma_hl.given
PlainCommission(k) ==
    RDiv(RMul(FeesIn.col["notional_abs"][k], call.opt.commission_bps), I(10000))

\* C13: apply_fees takes the option min_fee_abs; when it is > 0 every row
\* with a commission has fees = max(commission, min_fee_abs), row by row,
\* and when it is 0 or unset the fees are the commission.
C13_MinimumFee ==
    IsCall("apply_fees") =>
        /\ (call.opt.min_fee_abs.given /\ ~VolSlippageOn) =>
              call.result.status = "ok"
        /\ call.result.status = "ok" =>
              \A k \in FeesOut.index :
                  ~IsNaN(PlainCommission(k)) =>
                      FeesOut.col["fees"][k] =
                          IF MinFeeApplies
                          THEN RMax(PlainCommission(k), call.opt.min_fee_abs.v)
                          ELSE PlainCommission(k)

AddedColumns == {"fees", "vol_slip", "total_cost"}

\* C14: after any call of apply_fees, returning or raising, the caller's
\* table has the columns and values it had before; the columns fees,
\* vol_slip and total_cost are in the returned table only, which has every
\* column of the input unchanged.
C14_InputNotMutated ==
    IsCall("apply_fees") =>
        /\ call.result.heap["trades"] = FeesIn
        /\ AddedColumns \cap DOMAIN call.result.heap["trades"].col = {}
        /\ call.result.status = "ok" =>
              /\ call.result.out # "trades"
              /\ AddedColumns \subseteq DOMAIN FeesOut.col
              /\ \A c \in DOMAIN FeesIn.col : FeesOut.col[c] = FeesIn.col[c]

\* A call that returned a table with a fee on a table of two rows.
C14_Witness ==
    /\ FeesOk /\ Cardinality(FeesIn.index) > 1
    /\ \E k \in FeesOut.index : RGt(FeesOut.col["fees"][k], Zero)

\* Float equality: a missing value equals nothing, itself included.
FloatEq(a, b) == ~IsNaN(a) /\ ~IsNaN(b) /\ a = b

\* apply_fees of execution/fees.py on a table apply_execution returned with
\* zero spread, all fee parameters being zero.
ZeroFriction ==
    /\ IsCall("apply_fees") /\ call.mod = "execution"
    /\ call.origin.kind = "apply_execution"
    /\ ~call.origin.opt.use_cs_spread /\ ~call.origin.opt.fixed_spread_bps.given
    /\ call.opt.commission_bps = Zero /\ ~MinFeeApplies
    /\ ~call.opt.use_vol_slippage /\ call.opt.k_bps_per_sigma = Zero

\* C15 as stated: without frictions every trade row has p_exec == p_ref and
\* total_cost == 0.
C15_AsStated ==
    ZeroFriction =>
        /\ call.result.status = "ok"
        /\ \A k \in FeesOut.index :
              /\ FloatEq(FeesOut.col["p_exec"][k], FeesOut.col["p_ref"][k])
              /\ FloatEq(FeesOut.col["total_cost"][k], Zero)

\* C15, amended: without frictions every trade row that has a reference
\* price has p_exec == p_ref and total_cost == 0, whatever its quantity; a
\* row without one (the last date of the panel) has neither a p_exec nor a
\* total_cost.
C15_ZeroFriction ==
    ZeroFriction =>
        /\ call.result.status = "ok"
        /\ \A k \in FeesOut.index :
              IF IsNaN(FeesOut.col["p_ref"][k])
              THEN /\ IsNaN(FeesOut.col["p_exec"][k])
                   /\ IsNaN(FeesOut.col["total_cost"][k])
              ELSE /\ FloatEq(FeesOut.col["p_exec"][k], FeesOut.col["p_ref"][k])
                   /\ FloatEq(FeesOut.col["total_cost"][k], Zero)

\* A frictionless sell with a reference price, next to a row without one.
C15_Witness ==
    /\ ZeroFriction /\ call.result.status = "ok"
    /\ \E k \in FeesOut.index :
          /\ RLt(FeesOut.col["q"][k], Zero)
          /\ FeesOut.col["p_exec"][k] = FeesOut.col["p_ref"][k]
          /\ RGt(FeesOut.col["notional_abs"][k], Zero)
    /\ \E k \in FeesOut.index : IsNaN(FeesOut.col["p_ref"][k])

\* The volatility of a row: the value of the series at the row's key, 0
\* when the series has no value there.
SigmaAt(k) ==
    IF k \in DOMAIN call.opt.sigma_hl.v /\ ~IsNaN(call.opt.sigma_hl.v[k])
    THEN call.opt.sigma_hl.v[k] ELSE Zero

\* C18: a call of apply_fees with the slippage option on and a volatility
\* series returns, in every row, vol_slip = |q| * p_ref * (k_bps_per_sigma *
\* sigma) / 10000 (p_ref 0 for a table without that column); with the option
\* off or without a series it returns vol_slip = 0 in every row.
C18_VolSlippage ==
    (IsCall("apply_fees") /\ ~(call.mod = "portfolio" /\ call.opt.min_fee_abs.given)) =>
        /\ call.result.status = "ok"
        /\ \A k \in FeesOut.index :
              FeesOut.col["vol_slip"][k] =
                  IF VolSlippageOn
                  THEN RDiv(RMul(RMul(RAbs(FeesIn.col["q"][k]),
                                      IF HasCol(FeesIn, "p_ref")
                                      THEN FeesIn.col["p_ref"][k] ELSE Zero),
                                 RMul(call.opt.k_bps_per_sigma, SigmaAt(k))),
                            I(10000))
                  ELSE Zero

(***************************************************************************)
(* Properties of the cash asset (checked under SpecCalls)                  *)
(***************************************************************************)
CashOk == IsCall("build_cash_asset") /\ call.result.status = "ok"
LastCashRow == call.result.rows[Len(call.dates)]

\* C16: for every non-empty date sequence and every rate, the factor of the
\* last date is exactly 1: the close of the last date equals its open and
\* its log return is 0.
C16_TerminalFactor ==
    (IsCall("build_cash_asset") /\ Len(call.dates) > 0) =>
        /\ call.result.status = "ok"
        /\ LastCashRow.factor = One
        /\ FloatEq(LastCashRow.close, LastCashRow.open)
        /\ LastCashRow.daily_return_log = Zero

\* Three dates with a rate on each, the last before a weekend-long gap: the
\* asset has accrued before the last date and not on it.
C16_Witness ==
    /\ CashOk /\ Len(call.dates) = 3
    /\ call.dates[3] \in DOMAIN call.rf /\ call.rf[call.dates[3]] # Zero
    /\ call.result.rows[2].factor = Dec(1003, -3)
    /\ RGt(LastCashRow.open, One) /\ LastCashRow.close = LastCashRow.open

\* C17: build_clean_data raises ValueError on a panel that holds the cash
\* symbol, and on one whose index is not the (date, asset) MultiIndex: no
\* feature is computed, no panel is returned and no file is written.
C17_RejectsCashInInput ==
    (/\ IsCall("build_clean_data")
     /\ \/ ~call.prices.multi
        \/ call.prices.names # <<"date", "asset">>
        \/ \E k \in call.prices.keys : k[2] = call.cash_symbol) =>
        /\ call.result.status = "ValueError"
        /\ call.result.featured = {}
        /\ call.result.panel = [rows |-> {}, cash |-> <<>>]
        /\ call.result.files = {}

\* A well-indexed panel of SPY and CASH, with an output path, rejected.
C17_Witness ==
    /\ IsCall("build_clean_data") /\ call.result.status = "ValueError"
    /\ call.prices.multi /\ call.prices.names = <<"date", "asset">>
    /\ {k[2] : k \in call.prices.keys} = {"SPY", "CASH"}
    /\ call.cash_symbol = "CASH" /\ call.out_path.given

(***************************************************************************)
(* Properties of step (checked under Spec)                                 *)
(***************************************************************************)
StepTried == last.status # "none"

\* C19: after every step, the shares of each asset are its target, weight *
\* value before the rebalance / mark price, or 0 for a mark price of zero;
\* the trade is target - shares before, with no rounding to the account's
\* lot size.
C19_SharesAreTargets ==
    StepDone =>
        \A a \in DOMAIN acct.shares :
            LET target == IF last.p1[a] = Zero THEN Zero
                          ELSE RDiv(RMul(last.w[a], last.Ppre), last.p1[a])
            IN  /\ acct.shares[a] = target
                /\ last.q[a] = RSub(target, last.pre.shares[a])

\* An account of lot size above 1 whose step left a number of shares that is
\* no multiple of the lot, and sold off a holding marked at zero.
C19_Witness ==
    /\ StepDone /\ conf.lot_size > 1
    /\ \E a \in DOMAIN acct.shares :
          ~IsMultiple(acct.shares[a], conf.lot_size)
    /\ \E a \in DOMAIN acct.shares :
          /\ last.p1[a] = Zero /\ RGt(last.pre.shares[a], Zero)
          /\ acct.shares[a] = Zero

\* The execution price of the claim: the reference price widened by half the
\* spread against the side of the trade, the reference price when untraded.
ClaimedPexec(a) ==
    IF RGt(last.q[a], Zero)
    THEN RMul(last.pref[a], RAdd(One, RMul(Half, last.spread[a])))
    ELSE IF RLt(last.q[a], Zero)
    THEN RMul(last.pref[a], RSub(One, RMul(Half, last.spread[a])))
    ELSE last.pref[a]

\* C20: a step of an account built with the repository's fee model
\* completes, and after every step cash = cash before - sum of q * p_exec -
\* total fees, p_exec being the claimed price of each asset.
C20_CashTransition ==
    /\ (StepTried /\ conf.fees = "frame" /\ conf.exec = "execution") => StepDone
    /\ StepDone =>
          /\ \A a \in DOMAIN last.q : last.pexec[a] = ClaimedPexec(a)
          /\ acct.cash =
                RSub(RSub(last.pre.cash,
                          SeriesSum([a \in DOMAIN last.q |->
                                        RMul(last.q[a], ClaimedPexec(a))])),
                     last.fees)


(***************************************************************************)
(* Properties of apply_execution's spread and defaults (checked under      *)
(* SpecCalls)                                                              *)
(***************************************************************************)
\* The panel's spread estimate at key k, clamped at zero, 0 when missing.
PanelSpread(k) ==
    IF IsNaN(PanelAt("spread_cs", k)) \/ RLt(PanelAt("spread_cs", k), Zero)
    THEN Zero ELSE PanelAt("spread_cs", k)
FixedSpread == RDiv(call.opt.fixed_spread_bps.bps, I(10000))

\* A trade row priced and costed with the spread s: p_exec is the reference
\* price widened by half of s against the side, spread_cost is
\* |q| * p_ref * s / 2.
TradedAtSpread(k, s) ==
    LET t == call.result.trades
    IN  /\ t.p_exec[k] = WidenedPrice(t.p_ref[k], t.q[k], s)
        /\ t.spread_cost[k] = RMul(RMul(RAbs(t.q[k]), t.p_ref[k]), RDiv(s, I(2)))

\* The price of a row for the spread s as the called module computes it:
\* portfolio/execution.py clamps a negative s at zero, execution/execution.py
\* does not.
ModulePrice(k, s) ==
    LET t == call.result.trades
    IN  IF call.mod = "portfolio" /\ RLt(s, Zero) THEN t.p_ref[k]
        ELSE WidenedPrice(t.p_ref[k], t.q[k], s)

\* C21 as stated: every trade with a reference price is priced with the
\* fixed spread fixed_spread_bps / 10000 whenever the caller supplies one,
\* with max(panel spread, 0) when the panel-spread option is on and no fixed
\* spread is supplied, and with 0 when neither is requested.
C21_AsStated ==
    ExecOk =>
        \A k \in call.orders.index :
            ~IsNaN(call.result.trades.p_ref[k]) =>
                TradedAtSpread(k, IF call.opt.fixed_spread_bps.given THEN FixedSpread
                                  ELSE IF call.opt.use_cs_spread THEN PanelSpread(k)
                                  ELSE Zero)

\* C21, amended: the panel-spread option decides first.  When it is on, the
\* spread of every trade is max(panel spread, 0) and a supplied
\* fixed_spread_bps is ignored; when it is off, the spread is
\* fixed_spread_bps / 10000 if one is supplied and 0 otherwise.  spread_cost
\* is |q| * p_ref * spread / 2 and p_exec is the module's half-spread price
\* for that spread.
C21_SpreadSource ==
    ExecOk =>
        \A k \in call.orders.index :
            LET t == call.result.trades
                s == IF call.opt.use_cs_spread THEN PanelSpread(k)
                     ELSE IF call.opt.fixed_spread_bps.given THEN FixedSpread
                     ELSE Zero
            IN  ~IsNaN(t.p_ref[k]) =>
                  /\ t.p_exec[k] = ModulePrice(k, s)
                  /\ t.spread_cost[k] =
                        RMul(RMul(RAbs(t.q[k]), t.p_ref[k]), RDiv(s, I(2)))
                  /\ RGe(s, Zero) => TradedAtSpread(k, s)

\* A call with the panel-spread option on and a fixed spread of 20 bps: a
\* trade on a date whose panel spread is clamped to 0 is priced at the
\* reference price, and one on a date whose panel spread is 0.002 is widened.
C21_Witness ==
    /\ ExecOk /\ call.opt.use_cs_spread
    /\ call.opt.fixed_spread_bps.given /\ RGt(FixedSpread, Zero)
    /\ \E k \in call.orders.index :
          /\ call.result.trades.q[k] # Zero /\ RLt(PanelAt("spread_cs", k), Zero)
          /\ FloatEq(call.result.trades.p_exec[k], call.result.trades.p_ref[k])
          /\ call.result.trades.spread_cost[k] = Zero
    /\ \E k \in call.orders.index :
          /\ RGt(call.result.trades.q[k], Zero) /\ RGt(PanelSpread(k), Zero)
          /\ RGt(call.result.trades.p_exec[k], call.result.trades.p_ref[k])

\* C22: a call of apply_execution on a panel that has the reference-price
\* column returns, without raising, exactly one row per key of the order
\* set; a key whose order quantity is missing has q = 0; with the
\* panel-spread option on, a key whose spread estimate is missing, and every
\* key of a panel without a spread-estimate column, has spread 0: where it
\* has a reference price, p_exec = p_ref and spread_cost = 0.
C22_MissingInputsDefault ==
    (IsCall("apply_execution") /\ HasCol(call.prices, RefColumn)) =>
        /\ call.result.status = "ok"
        /\ DOMAIN call.result.trades.q = call.orders.index
        /\ \A k \in call.orders.index :
              LET t == call.result.trades
              IN  /\ IsNaN(call.orders.col[call.opt.order_col][k]) => t.q[k] = Zero
                  /\ (/\ call.opt.use_cs_spread
                      /\ \/ ~HasCol(call.prices, "spread_cs")
                         \/ IsNaN(PanelAt("spread_cs", k))
                      /\ ~IsNaN(t.p_ref[k])) =>
                        /\ t.p_exec[k] = t.p_ref[k]
                        /\ t.spread_cost[k] = Zero

(***************************************************************************)
(* Properties of the cash asset's prices (checked under SpecCalls)         *)
(***************************************************************************)
\* The rate known as of the i-th date of the call: the rate of the latest
\* date up to it that has one.
RateAsOf(i) ==
    LET known == {j \in 1..i : call.dates[j] \in DOMAIN call.rf}
        j     == CHOOSE x \in known : \A y \in known : y <= x
    IN  call.rf[call.dates[j]]

\* The factor of the i-th date: 1 + rate * days to the next date / 360, and
\* 1 on the last date, which has no next interval.
ClaimedFactor(i) ==
    IF i = Len(call.dates) THEN One
    ELSE RAdd(One, RMul(RateAsOf(i),
                        Frac(call.dates[i + 1] - call.dates[i], 360)))

\* C23: for every date sequence whose first date has a rate, open on the
\* first date is 1, open on every later date is the close of the date
\* before, close is the previous close (1 before the first date) times the
\* date's factor, high = max(open, close), low = min(open, close), and the
\* T+1 execution reference of a date is the open of the next date, which is
\* the date's own close, and is missing on the last date.
C23_CashPrices ==
    (IsCall("build_cash_asset") /\ Len(call.dates) > 0
        /\ call.dates[1] \in DOMAIN call.rf) =>
        /\ call.result.status = "ok"
        /\ \A i \in DOMAIN call.dates :
              LET rows == call.result.rows
                  r    == rows[i]
                  prev == IF i = 1 THEN One ELSE rows[i - 1].close
              IN  /\ FloatEq(r.open, prev)
                  /\ FloatEq(r.close, RMul(prev, ClaimedFactor(i)))
                  /\ r.high = (IF RGt(r.close, r.open) THEN r.close ELSE r.open)
                  /\ r.low  = (IF RLt(r.close, r.open) THEN r.close ELSE r.open)
                  /\ IF i < Len(call.dates)
                     THEN /\ FloatEq(r.execution_price_t_plus_1_open, rows[i + 1].open)
                          /\ FloatEq(r.execution_price_t_plus_1_open, r.close)
                     ELSE IsNaN(r.execution_price_t_plus_1_open)

\* Three dates, the second without a rate of its own and before a
\* weekend-long gap, at a negative rate: the asset loses value on each of the
\* first two dates, so that low is the close and high the open.
C23_Witness ==
    /\ CashOk /\ Len(call.dates) = 3
    /\ call.dates[1] \in DOMAIN call.rf /\ call.dates[2] \notin DOMAIN call.rf
    /\ call.dates[3] - call.dates[2] = 3
    /\ RLt(call.rf[call.dates[1]], Zero)
    /\ RLt(call.result.rows[2].close, call.result.rows[1].close)
    /\ call.result.rows[2].low = call.result.rows[2].close
    /\ call.result.rows[2].high = call.result.rows[1].close
    /\ call.result.rows[2].execution_price_t_plus_1_open = call.result.rows[3].open

(***************************************************************************)
(* Properties of the account's inputs and states (checked under Spec)      *)
(***************************************************************************)
\* What a step returns and what decides it: its record without the
\* diagnostic value at the current mark prices.
Outcome(rec) == [f \in DOMAIN rec \ {"P_t"} |-> rec[f]]

\* C24: two accounts in the same state, stepped with the same next-interval
\* prices and targets but different current mark prices, stay in the same
\* state: same cash, shares, value and weights, the same trades, prices and
\* fees returned, or the same exception.
C24_MarkIsDiagnostic ==
    /\ twin.acct = acct
    /\ Outcome(twin.last) = Outcome(last)

\* A step of two accounts with holdings whose values at their current mark
\* prices differ, which traded and came out alike.
C24_Witness ==
    /\ StepDone /\ steps = 2
    /\ last.P_t # twin.last.P_t
    /\ \E a \in DOMAIN last.q : last.q[a] # Zero
    /\ twin.acct = acct /\ twin.last.q = last.q

\* The state of an account that holds nothing but the cash c.
FreshAccount(c) ==
    [cash    |-> c,
     shares  |-> [a \in conf.assets |-> Zero],
     value   |-> c,
     weights |-> [a \in conf.assets |-> Zero]]

\* C25: after construction and after every reset, whatever steps came
\* before, the account has cash = value = the initial_cash of that call, no
\* shares and zero weights; and the state changes only by a reset or a step.
C25_InitialState ==
    /\ [](call.op \in {"__init__", "reset"} =>
              acct = FreshAccount(call.initial_cash))
    /\ [][acct' # acct => call'.op \in {"reset", "step"}]_vars

\* A reset to 50 of an account constructed with 100 that held shares.
C25_Witness ==
    /\ call.op = "reset" /\ call.held /\ call.initial_cash = I(50)
    /\ call.initial_cash \notin InitialCash
    /\ acct = FreshAccount(I(50))

NoShorting == StepDone /\ ~conf.allow_short
MarksPositive == \A a \in DOMAIN last.p1 : RGt(last.p1[a], Zero)

Frictionless ==
    /\ StepDone /\ last.fees = Zero /\ RGt(last.Ppre, Zero)
    /\ \A a \in DOMAIN last.q :
          /\ last.spread[a] = Zero
          /\ last.pref[a] = last.p1[a] /\ last.p1[a] # Zero
          /\ RGe(last.w_target[a], Zero)
TargetSum == SeriesSum(last.w_target)
Rebalanced(den) ==
    /\ acct.value = last.Ppre
    /\ \A a \in DOMAIN acct.weights :
          acct.weights[a] = RDiv(last.w_target[a], den)
    /\ acct.cash = RMul(last.Ppre, RSub(One, RDiv(TargetSum, den)))

\* C27 as stated: a frictionless step toward targets of positive sum leaves
\* the value unchanged and the cash at 0, with weights equal to the targets
\* divided by their sum.
C27_AsStated ==
    (Frictionless /\ RGt(TargetSum, Zero)) =>
        (Rebalanced(TargetSum) /\ acct.cash = Zero)

\* C27, amended: a frictionless step leaves the value unchanged; toward
\* targets whose sum is at least EPS it leaves the cash at 0 and the weights
\* at the targets divided by their sum; toward targets of a smaller positive
\* sum the weights are the targets divided by EPS and the rest of the value
\* stays in cash.
C27_FrictionlessRebalance ==
    (Frictionless /\ RGt(TargetSum, Zero)) =>
        IF RGe(TargetSum, EPS)
        THEN Rebalanced(TargetSum) /\ acct.cash = Zero
        ELSE Rebalanced(EPS) /\ RGt(acct.cash, Zero)

\* A frictionless second step that sold part of one holding to buy the
\* other asset and ended fully invested.
C27_Witness ==
    /\ Frictionless /\ steps = 2 /\ acct.cash = Zero /\ acct.value = last.Ppre
    /\ \E a \in DOMAIN last.q : RLt(last.q[a], Zero) /\ RGt(acct.shares[a], Zero)
    /\ \E a \in DOMAIN last.q : RGt(last.q[a], Zero)

\* The target of the last step is empty: all zero, or, for an account that
\* does not allow shorting, without a positive entry.
EmptyTarget ==
    \/ \A a \in DOMAIN last.w_target : last.w_target[a] = Zero
    \/ ~conf.allow_short /\ \A a \in DOMAIN last.w_target : RLe(last.w_target[a], Zero)

\* C28: a step toward an empty target sells every holding: its trades are
\* the negated holdings, and after it every share count is 0, every weight
\* is 0 and the value is the cash.
C28_FullLiquidation ==
    (StepDone /\ EmptyTarget) =>
        /\ \A a \in DOMAIN acct.shares :
              /\ last.q[a] = RNeg(last.pre.shares[a])
              /\ acct.shares[a] = Zero
              /\ acct.weights[a] = Zero
        /\ acct.value = acct.cash

\* An account without shorting that held both assets and was given a target
\* with a negative entry and no positive one: both holdings are sold.
C28_Witness ==
    /\ StepDone /\ ~conf.allow_short
    /\ \E a \in DOMAIN last.w_target : RLt(last.w_target[a], Zero)
    /\ \A a \in DOMAIN last.w_target : RLe(last.w_target[a], Zero)
    /\ \A a \in DOMAIN last.q : RGt(last.pre.shares[a], Zero) /\ RLt(last.q[a], Zero)
    /\ \A a \in DOMAIN acct.shares : acct.shares[a] = Zero
    /\ acct.value = acct.cash /\ acct.cash # last.pre.cash

(***************************************************************************)
(* Properties of the two copies of the engine and of trades of quantity    *)
(* zero (checked under SpecCalls)                                          *)
(***************************************************************************)
OtherModule(mod) == IF mod = "execution" THEN "portfolio" ELSE "execution"

\* C29: whatever a call of half_spread_price, round_shares or
\* apply_execution of one execution module returns or raises, the same call
\* of the other module returns or raises the same, for every panel, order
\* set and option, negative spreads and scalar sides included.
C29_ModulesInterchangeable ==
    /\ IsCall("half_spread_price") =>
          call.result = half_spread_price(OtherModule(call.mod),
                                          [k \in {0} |-> call.p_ref], call.side,
                                          [k \in {0} |-> call.spread])
    /\ IsCall("round_shares") =>
          call.result = round_shares(OtherModule(call.mod),
                                     [k \in {0} |-> call.q], call.lot)[0]
    /\ IsCall("apply_execution") =>
          call.result = apply_execution(OtherModule(call.mod), call.prices,
                                        call.orders, call.opt)

\* C30: a row of quantity zero that has a reference price costs nothing:
\* apply_execution returns it with notional_abs = 0 and spread_cost = 0, and
\* apply_fees returns it with fees = 0, vol_slip = 0 and total_cost = 0
\* under every fee configuration, a minimum fee included.
C30_ZeroQuantityIsFree ==
    /\ ExecOk =>
          \A k \in call.orders.index :
              LET t == call.result.trades
              IN  (t.q[k] = Zero /\ ~IsNaN(t.p_ref[k])) =>
                      t.notional_abs[k] = Zero /\ t.spread_cost[k] = Zero
    /\ (FeesOk /\ HasCol(FeesIn, "p_ref")) =>
          \A k \in FeesOut.index :
              (/\ FeesIn.col["q"][k] = Zero
               /\ ~IsNaN(FeesIn.col["p_ref"][k])
               /\ FeesIn.col["spread_cost"][k] = Zero) =>
                  /\ FeesOut.col["fees"][k] = Zero
                  /\ FeesOut.col["vol_slip"][k] = Zero
                  /\ FeesOut.col["total_cost"][k] = Zero

=============================================================================
